---- MODULE Spec2Model ----
(***************************************************************************)
(* Model of SwitchFormComponent (switch-form.component.ts): a reactive     *)
(* form whose validators are switched by an effect that follows the        *)
(* customerType control through a signal and a computed.                   *)
(*                                                                         *)
(* The signal graph is modelled as Angular runs it: signal.set notifies    *)
(* only when the value differs, the effect is scheduled (dirty) and runs   *)
(* at the next flush, and it re-runs only when the computed it reads       *)
(* produced a different value (the arrays of dynamicDisplayFormsPattern    *)
(* are compared by reference, one array per category).                     *)
(***************************************************************************)
EXTENDS Integers, Sequences, FiniteSets, TLC

\* ---------------------------------------------------------------- bounds
\* longest text typed into a text field
MaxLen == 1
\* number of user events (category events and text edits) in a run
MaxEvents == 4

\* ------------------------------------------------------------- constants
NULL == "null"
CustomerType == {"individual", "corporate"}
\* values a caller can push through the control at run time although the
\* CustomerType type forbids them
UntypedValues == {NULL, "other"}

allForms == <<"customerType", "name", "nameKana", "companyName", "companyNameKana">>
TextForms == {"name", "nameKana", "companyName", "companyNameKana"}

defaultDisplayForms == <<"customerType">>

dynamicDisplayFormsPattern ==
  [individual |-> <<"name", "nameKana">>,
   corporate  |-> <<"companyName", "companyNameKana">>]

formValidationManager ==
  [customerType    |-> <<>>,
   name            |-> <<"required">>,
   nameKana        |-> <<"required">>,
   companyName     |-> <<"required">>,
   companyNameKana |-> <<"required">>]

\* ------------------------------------------------------------- helpers
Range(s) == {s[i] : i \in 1..Len(s)}
Includes(s, x) == \E i \in 1..Len(s) : s[i] = x

RECURSIVE Str(_)
Str(n) == IF n = 0 THEN "" ELSE Str(n - 1) \o "a"
TextValues == {Str(n) : n \in 0..MaxLen}

\* values of the computed: an array of keys, or undefined (a lookup of a key
\* the pattern table does not have); Unset is the computed before its first
\* evaluation
Arr(s) == [kind |-> "array", items |-> s]
Undefined == [kind |-> "undefined", items |-> <<>>]
Unset == [kind |-> "unset", items |-> <<>>]

\* --------------------------------------------------- reactive forms
\* Validators.required: an error when the value is null or has length 0
RequiredFailsNullOnly(v) == v = NULL
RequiredFails(v) == v = NULL \/ Len(v) = 0

\* AbstractControl._runValidator: the set of error keys of a control
RunValidator(rules, v) ==
  {r \in Range(rules) : r = "required" /\ RequiredFails(v)}

\* AbstractControl.status of one control
ControlStatus(c) == IF c.errors = {} THEN "VALID" ELSE "INVALID"

\* FormGroup._calculateStatus: the group has no validator of its own
GroupStatus(controls) ==
  IF \E f \in DOMAIN controls : ControlStatus(controls[f]) = "INVALID"
  THEN "INVALID" ELSE "VALID"

\* control.clearValidators()
ClearValidators(form, f) ==
  [form EXCEPT !.controls[f].validators = <<>>]

\* control.setValidators(rules)
SetValidators(form, f, rules) ==
  [form EXCEPT !.controls[f].validators = rules]

\* control.updateValueAndValidity(): re-run the control's validators, then
\* update the parent group
UpdateValueAndValidityOnlySelf(form, f) ==
  LET c == form.controls[f]
  IN [form EXCEPT !.controls[f].errors = RunValidator(c.validators, c.value)]
UpdateValueAndValidity(form, f) ==
  LET c == form.controls[f]
      controls == [form.controls EXCEPT
                     ![f].errors = RunValidator(c.validators, c.value)]
  IN [controls |-> controls, status |-> GroupStatus(controls)]

\* control.setValue(v)
SetValue(form, f, v) ==
  UpdateValueAndValidity([form EXCEPT !.controls[f].value = v], f)

\* the validators each control is constructed with
InitialValidatorsRequired(f) == <<"required">>
InitialValidators(f) == <<>>

\* new FormGroup<SwitchForm>({...})
NewSwitchForm ==
  LET controls ==
        [f \in Range(allForms) |->
           [value |-> IF f = "customerType" THEN "individual" ELSE "",
            validators |-> InitialValidators(f),
            errors |-> RunValidator(InitialValidators(f),
                                    IF f = "customerType" THEN "individual" ELSE "")]]
  IN [controls |-> controls, status |-> GroupStatus(controls)]

\* ------------------------------------------------------ the component
\* _getDynamicDisplayForms(customerType)
GetDynamicDisplayFormsWithDefaults(customerType) ==
  IF customerType \in DOMAIN dynamicDisplayFormsPattern
  THEN Arr(defaultDisplayForms \o dynamicDisplayFormsPattern[customerType])
  ELSE Undefined
GetDynamicDisplayForms(customerType) ==
  IF customerType \in DOMAIN dynamicDisplayFormsPattern
  THEN Arr(dynamicDisplayFormsPattern[customerType])
  ELSE Undefined

\* the body of the computed dynamicDisplayForms
DynamicDisplayFormsStale(current) == GetDynamicDisplayForms("individual")
DynamicDisplayForms(current) ==
  GetDynamicDisplayForms(IF current = NULL THEN "individual" ELSE current)

\* step [1] of _switchValidators on the keys s[i..]
RECURSIVE ApplyDisplayedAppend(_, _, _)
ApplyDisplayedAppend(form, s, i) ==
  IF i > Len(s) THEN form
  ELSE ApplyDisplayedAppend(
         UpdateValueAndValidity(
           SetValidators(form, s[i],
                         form.controls[s[i]].validators
                           \o formValidationManager[s[i]]),
           s[i]),
         s, i + 1)
ApplyDisplayedFirstOnly(form, s, i) ==
  IF i > 1 \/ i > Len(s) THEN form
  ELSE UpdateValueAndValidity(
         SetValidators(ClearValidators(form, s[i]), s[i],
                       formValidationManager[s[i]]),
         s[i])
RECURSIVE ApplyDisplayed(_, _, _)
ApplyDisplayed(form, s, i) ==
  IF i > Len(s) THEN form
  ELSE ApplyDisplayed(
         UpdateValueAndValidity(
           SetValidators(ClearValidators(form, s[i]), s[i],
                         formValidationManager[s[i]]),
           s[i]),
         s, i + 1)

\* step [2] of _switchValidators on the keys of allForms from i on
RECURSIVE ClearHiddenReset(_, _, _)
ClearHiddenReset(form, displayed, i) ==
  IF i > Len(allForms) THEN form
  ELSE IF ~(Includes(displayed, allForms[i])
            \/ Includes(defaultDisplayForms, allForms[i]))
       THEN ClearHiddenReset(
              SetValue(ClearValidators(form, allForms[i]), allForms[i], ""),
              displayed, i + 1)
       ELSE ClearHiddenReset(form, displayed, i + 1)
RECURSIVE ClearHidden(_, _, _)
ClearHidden(form, displayed, i) ==
  IF i > Len(allForms) THEN form
  ELSE IF ~(Includes(displayed, allForms[i])
            \/ Includes(defaultDisplayForms, allForms[i]))
       THEN ClearHidden(
              UpdateValueAndValidity(ClearValidators(form, allForms[i]),
                                     allForms[i]),
              displayed, i + 1)
       ELSE ClearHidden(form, displayed, i + 1)

\* _switchValidators(dynamicDisplayForms), for an array argument
SwitchValidatorsNoClear(form, displayed) == ApplyDisplayed(form, displayed, 1)
SwitchValidators(form, displayed) ==
  ClearHidden(ApplyDisplayed(form, displayed, 1), displayed, 1)

\* ----------------------------------------------------------------- state
VARIABLES
  switchForm,            \* the FormGroup: controls and group status
  currentCustomerType,   \* the signal _currentCustomerType
  displayForms,          \* the value the computed dynamicDisplayForms holds
  effectDirty,           \* the effect is scheduled to run at the next flush
  effectDestroyed,       \* _switchValidatorsEffect.destroy() was called
  subscribed,            \* the valueChanges subscription is live
  phase,                 \* "constructed" | "initialized" | "destroyed"
  engineRuns,            \* calls of _switchValidators
  engineErrors,          \* calls of _switchValidators that threw
  changes,               \* category events that changed customerType
  publishes,             \* calls of _currentCustomerType.set by the subscriber
  events,                \* user events so far
  categoryEvents         \* category events (customerType.setValue) so far

vars == <<switchForm, currentCustomerType, displayForms, effectDirty,
          effectDestroyed, subscribed, phase, engineRuns, engineErrors,
          changes, publishes, events, categoryEvents>>

\* state after the field initialisers and the constructor: the effect is
\* registered and scheduled for its first run
Init ==
  /\ switchForm = NewSwitchForm
  /\ currentCustomerType = NULL
  /\ displayForms = Unset
  /\ effectDirty = TRUE
  /\ effectDestroyed = FALSE
  /\ subscribed = FALSE
  /\ phase = "constructed"
  /\ engineRuns = 0
  /\ engineErrors = 0
  /\ changes = 0
  /\ publishes = 0
  /\ events = 0
  /\ categoryEvents = 0

\* WritableSignal.set: nothing happens when the value is the same;
\* otherwise the live effect is notified
SignalSetNoNotify(v) ==
  /\ currentCustomerType' = v
  /\ UNCHANGED effectDirty
SignalSetAlways(v) ==
  /\ currentCustomerType' = v
  /\ effectDirty' = (effectDirty \/ ~effectDestroyed)
SignalSet(v) ==
  IF v = currentCustomerType
  THEN UNCHANGED <<currentCustomerType, effectDirty>>
  ELSE /\ currentCustomerType' = v
       /\ effectDirty' = (effectDirty \/ ~effectDestroyed)

\* ngOnInit: subscribe to customerType.valueChanges, publish the value
NgOnInitNoPublish ==
  /\ phase = "constructed"
  /\ phase' = "initialized"
  /\ subscribed' = TRUE
  /\ UNCHANGED <<currentCustomerType, effectDirty>>
  /\ UNCHANGED <<switchForm, displayForms, effectDestroyed, engineRuns,
                 engineErrors, changes, publishes, events,
                 categoryEvents>>
NgOnInit ==
  /\ phase = "constructed"
  /\ phase' = "initialized"
  /\ subscribed' = TRUE
  /\ SignalSet(switchForm.controls["customerType"].value)
  /\ UNCHANGED <<switchForm, displayForms, effectDestroyed, engineRuns,
                 engineErrors, changes, publishes, events,
                 categoryEvents>>

\* events reach the form once the first change detection (ngOnInit and the
\* effect's first run) has rendered it, or after the component is gone
Interactive ==
  \/ phase = "initialized" /\ engineRuns >= 1
  \/ phase = "destroyed"

\* a category event: customerType.setValue(v) and the valueChanges
\* subscriber of ngOnInit
CustomerTypeChangeDistinct(v) ==
  /\ Interactive
  /\ events < MaxEvents
  /\ events' = events + 1
  /\ categoryEvents' = categoryEvents + 1
  /\ switchForm' = SetValue(switchForm, "customerType", v)
  /\ changes' = IF v # switchForm.controls["customerType"].value
                THEN changes + 1 ELSE changes
  /\ IF subscribed /\ v # switchForm.controls["customerType"].value
     THEN /\ SignalSet(v)
          /\ publishes' = publishes + 1
     ELSE UNCHANGED <<currentCustomerType, effectDirty, publishes>>
  /\ UNCHANGED <<displayForms, effectDestroyed, subscribed, phase,
                 engineRuns, engineErrors>>
CustomerTypeChange(v) ==
  /\ Interactive
  /\ events < MaxEvents
  /\ events' = events + 1
  /\ categoryEvents' = categoryEvents + 1
  /\ switchForm' = SetValue(switchForm, "customerType", v)
  /\ changes' = IF v # switchForm.controls["customerType"].value
                THEN changes + 1 ELSE changes
  /\ IF subscribed
     THEN /\ SignalSet(v)
          /\ publishes' = publishes + 1
     ELSE UNCHANGED <<currentCustomerType, effectDirty, publishes>>
  /\ UNCHANGED <<displayForms, effectDestroyed, subscribed, phase,
                 engineRuns, engineErrors>>

\* a user edit of a text field: control.setValue(v); nobody subscribes
TextEditPublishes(f, v) ==
  /\ Interactive
  /\ events < MaxEvents
  /\ events' = events + 1
  /\ switchForm' = SetValue(switchForm, f, v)
  /\ IF subscribed
     THEN /\ SignalSet(switchForm.controls["customerType"].value)
          /\ publishes' = publishes + 1
     ELSE UNCHANGED <<currentCustomerType, effectDirty, publishes>>
  /\ UNCHANGED <<displayForms, effectDestroyed, subscribed, phase, engineRuns,
                 engineErrors, changes, categoryEvents>>
TextEdit(f, v) ==
  /\ Interactive
  /\ events < MaxEvents
  /\ events' = events + 1
  /\ switchForm' = SetValue(switchForm, f, v)
  /\ UNCHANGED <<currentCustomerType, displayForms, effectDirty,
                 effectDestroyed, subscribed, phase, engineRuns,
                 engineErrors, changes, publishes, categoryEvents>>

\* the scheduled effect is flushed: it runs the first time, and afterwards
\* only when the computed produced another value
FlushEffectAlwaysRun ==
  /\ phase = "initialized"
  /\ effectDirty /\ ~effectDestroyed
  /\ LET new == DynamicDisplayForms(currentCustomerType) IN
       /\ effectDirty' = FALSE
       /\ displayForms' = new
       /\ engineRuns' = engineRuns + 1
       /\ IF new.kind = "array"
          THEN /\ switchForm' = SwitchValidators(switchForm, new.items)
               /\ UNCHANGED engineErrors
          ELSE /\ engineErrors' = engineErrors + 1
               /\ UNCHANGED switchForm
  /\ UNCHANGED <<currentCustomerType, effectDestroyed, subscribed, phase,
                 changes, publishes, events, categoryEvents>>
FlushEffect ==
  /\ phase = "initialized"
  /\ effectDirty /\ ~effectDestroyed
  /\ LET new == DynamicDisplayForms(currentCustomerType) IN
       /\ effectDirty' = FALSE
       /\ displayForms' = new
       /\ IF new = displayForms
          THEN UNCHANGED <<switchForm, engineRuns, engineErrors>>
          ELSE /\ engineRuns' = engineRuns + 1
               /\ IF new.kind = "array"
                  THEN /\ switchForm' = SwitchValidators(switchForm, new.items)
                       /\ UNCHANGED engineErrors
                  ELSE \* undefined.forEach throws before anything is changed
                       /\ engineErrors' = engineErrors + 1
                       /\ UNCHANGED switchForm
  /\ UNCHANGED <<currentCustomerType, effectDestroyed, subscribed, phase,
                 changes, publishes, events, categoryEvents>>

\* teardown: ngOnDestroy destroys the effect (a scheduled run is dropped)
\* and the DestroyRef ends the takeUntilDestroyed subscription
DestroyKeepSubscription ==
  /\ phase # "destroyed"
  /\ phase' = "destroyed"
  /\ effectDestroyed' = TRUE
  /\ effectDirty' = FALSE
  /\ UNCHANGED subscribed
  /\ UNCHANGED <<switchForm, currentCustomerType, displayForms, engineRuns,
                 engineErrors, changes, publishes, events,
                 categoryEvents>>
Destroy ==
  /\ phase # "destroyed"
  /\ phase' = "destroyed"
  /\ effectDestroyed' = TRUE
  /\ effectDirty' = FALSE
  /\ subscribed' = FALSE
  /\ UNCHANGED <<switchForm, currentCustomerType, displayForms, engineRuns,
                 engineErrors, changes, publishes, events,
                 categoryEvents>>

Next ==
  \/ NgOnInit
  \/ \E v \in CustomerType : CustomerTypeChange(v)
  \/ \E f \in TextForms, v \in TextValues : TextEdit(f, v)
  \/ FlushEffect
  \/ Destroy

Spec == Init /\ [][Next]_vars

\* the same component driven by a caller that is not held to the
\* CustomerType type
NextUntyped ==
  \/ NgOnInit
  \/ \E v \in CustomerType \cup UntypedValues : CustomerTypeChange(v)
  \/ \E f \in TextForms, v \in TextValues : TextEdit(f, v)
  \/ FlushEffect
  \/ Destroy

SpecUntyped == Init /\ [][NextUntyped]_vars

\* the guard of FlushEffect: a run of the effect is scheduled
FlushEnabled == phase = "initialized" /\ effectDirty /\ ~effectDestroyed

\* change detection keeps running while the component is alive, so a
\* scheduled effect is eventually flushed: weak fairness of FlushEffect,
\* with ENABLED <<FlushEffect>>_vars written out as FlushEnabled
SpecFair ==
  /\ Init /\ [][Next]_vars
  /\ ([]<>(~FlushEnabled) \/ []<><<FlushEffect>>_vars)

\* --------------------------------------- _switchValidators on its own
\* number of calls of _switchValidators in a run
MaxApplies == 3

RuleLists == {<<>>, <<"required">>}

\* a form with the given values and rule lists, validity evaluated
FormOf(ct, values, rules) ==
  LET val(f) == IF f = "customerType" THEN ct ELSE values[f]
      controls ==
        [f \in Range(allForms) |->
           [value |-> val(f),
            validators |-> rules[f],
            errors |-> RunValidator(rules[f], val(f))]]
  IN [controls |-> controls, status |-> GroupStatus(controls)]

\* every form state: any category, any text values, any prior rule lists
AnyForm ==
  {FormOf(ct, values, rules) :
     ct \in CustomerType,
     values \in [TextForms -> TextValues],
     rules \in [Range(allForms) -> RuleLists]}

InitApply ==
  /\ switchForm \in AnyForm
  /\ currentCustomerType = NULL
  /\ displayForms = Unset
  /\ effectDirty = FALSE
  /\ effectDestroyed = FALSE
  /\ subscribed = FALSE
  /\ phase = "initialized"
  /\ engineRuns = 0
  /\ engineErrors = 0
  /\ changes = 0
  /\ publishes = 0
  /\ events = 0
  /\ categoryEvents = 0

\* one call _switchValidators(_getDynamicDisplayForms(c)); changes counts
\* the calls whose field list differs from that of the call before
ApplyValidation(c) ==
  /\ engineRuns < MaxApplies
  /\ engineRuns' = engineRuns + 1
  /\ displayForms' = GetDynamicDisplayForms(c)
  /\ switchForm' = SwitchValidators(switchForm, GetDynamicDisplayForms(c).items)
  /\ changes' = IF engineRuns >= 1 /\ GetDynamicDisplayForms(c) # displayForms
                THEN changes + 1 ELSE changes
  /\ UNCHANGED <<currentCustomerType, effectDirty, effectDestroyed, subscribed,
                 phase, engineErrors, publishes, events, categoryEvents>>

NextApply == \E c \in CustomerType : ApplyValidation(c)

SpecApply == InitApply /\ [][NextApply]_vars

TypeOK ==
  /\ phase \in {"constructed", "initialized", "destroyed"}
  /\ currentCustomerType \in CustomerType \cup UntypedValues
  /\ switchForm.status \in {"VALID", "INVALID"}
  /\ engineRuns \in 0..(MaxEvents + 1)

\* ------------------------------------------------------------ vocabulary
\* the category the customerType control holds
Selected == switchForm.controls["customerType"].value

OtherCategory(c) == IF c = "individual" THEN "corporate" ELSE "individual"

\* the text fields of a category, as the specification lists them
FieldsOf(c) ==
  IF c = "individual" THEN {"name", "nameKana"}
  ELSE IF c = "corporate" THEN {"companyName", "companyNameKana"}
  ELSE {}

RuleList(f) == switchForm.controls[f].validators
Value(f) == switchForm.controls[f].value
Invalid(f) == switchForm.controls[f].errors # {}

\* the rule lists of the text fields are those of category c
InstalledFor(c) ==
  \A f \in TextForms :
    RuleList(f) = IF f \in FieldsOf(c) THEN <<"required">> ELSE <<>>

\* the component is alive, the engine has run, and no run is pending
Reacted == phase = "initialized" /\ engineRuns >= 1 /\ ~effectDirty

\* -------------------------------------------------------------------- C1
\* C1: once the engine has reacted to the latest category change, each field
\* of the selected category carries exactly the required rule, and each
\* field of the other category carries an empty rule list and no error.
C1_RulesFollowCategory ==
  Reacted =>
    /\ \A f \in FieldsOf(Selected) : RuleList(f) = <<"required">>
    /\ \A f \in FieldsOf(OtherCategory(Selected)) :
         RuleList(f) = <<>> /\ ~Invalid(f)

\* the engine has reacted to a switch to corporate and to the switch back
C1_Witness ==
  /\ Reacted
  /\ Selected = "individual"
  /\ changes >= 2
  /\ engineRuns >= 3
  /\ InstalledFor("individual")

\* -------------------------------------------------------------------- C2
\* C2: once the engine has reacted to the selected category, a text field is
\* invalid exactly when it belongs to the selected category and is empty
\* (individual with name empty: name invalid, companyName valid; after the
\* switch to corporate: name valid, companyName invalid).
C2_InvalidIffSelectedAndEmpty ==
  Reacted =>
    \A f \in TextForms :
      Invalid(f) <=> (f \in FieldsOf(Selected) /\ Value(f) = "")

\* switched to corporate without filling any field
C2_Witness ==
  /\ Reacted
  /\ Selected = "corporate"
  /\ engineRuns = 2
  /\ \A f \in TextForms : Value(f) = ""
  /\ ~Invalid("name")
  /\ Invalid("companyName")

\* -------------------------------------------------------------------- C3
\* C3 as stated: for n changes of the selected category the engine has run
\* exactly n times after its initial run, once it has reacted.
C3_ExactlyOncePerChange ==
  Reacted => engineRuns = changes + 1

\* C3 as amended: the engine runs only as the reaction to a pending change
\* that made the computed field list differ, one run at a time, and never
\* more often than the category changed (plus the initial run).
C3_AtMostOncePerChange ==
  [][engineRuns' # engineRuns =>
       /\ engineRuns' = engineRuns + 1
       /\ effectDirty /\ ~effectDirty'
       /\ displayForms' # displayForms
       /\ engineRuns' <= changes' + 1]_vars

\* individual -> corporate -> individual before the engine reacted: the two
\* changes were merged and caused no run
C3_Witness ==
  /\ Reacted
  /\ changes = 2
  /\ engineRuns = 1
  /\ Selected = "individual"

\* -------------------------------------------------------------------- C4
\* C4 as stated: after initialization there is no state in which customerType
\* holds one category while the installed rule lists are those of the other.
C4_SynchronousReapply ==
  (phase = "initialized" /\ engineRuns >= 1) =>
    ~InstalledFor(OtherCategory(Selected))

\* C4 as amended: while the component is alive the category is published
\* with the change itself, and the rule lists are those of the other
\* category only while a run of the engine is pending.
C4_StaleOnlyWhilePending ==
  (phase = "initialized" /\ engineRuns >= 1) =>
    /\ currentCustomerType = Selected
    /\ InstalledFor(OtherCategory(Selected)) => effectDirty

\* a text edit was made while the rules were still those of the other
\* category
C4_Witness ==
  /\ phase = "initialized"
  /\ engineRuns >= 1
  /\ effectDirty
  /\ Selected = "corporate"
  /\ InstalledFor("individual")
  /\ Value("companyName") # ""
  /\ ~Invalid("companyNameKana")

\* -------------------------------------------------------------------- C5
\* C5 as stated: the active-field computation returns the default fields
\* together with the fields of the category.
C5_ActiveFieldsWithDefaults ==
  Reacted =>
    Range(displayForms.items) =
      Range(defaultDisplayForms) \cup FieldsOf(currentCustomerType)

\* C5 as amended: the computation returns exactly the fields of the
\* category, in the order of the table, without customerType.
C5_ActiveFieldsOfCategory ==
  Reacted =>
    /\ displayForms.kind = "array"
    /\ currentCustomerType = "individual" =>
         displayForms.items = <<"name", "nameKana">>
    /\ currentCustomerType = "corporate" =>
         displayForms.items = <<"companyName", "companyNameKana">>

C5_Witness ==
  /\ Reacted
  /\ currentCustomerType = "corporate"
  /\ displayForms.items = <<"companyName", "companyNameKana">>

\* -------------------------------------------------------------------- C6
\* first load is over and the user has done nothing yet
FirstLoad == Reacted /\ engineRuns = 1 /\ events = 0

\* C6: after first load and before any interaction, individual has been
\* published; name and nameKana carry the required rule and are invalid;
\* companyName and companyNameKana carry no rule and are valid; the form is
\* invalid.
C6_FirstLoadInitialized ==
  FirstLoad =>
    /\ currentCustomerType = "individual"
    /\ Selected = "individual"
    /\ \A f \in {"name", "nameKana"} :
         RuleList(f) = <<"required">> /\ Invalid(f)
    /\ \A f \in {"companyName", "companyNameKana"} :
         RuleList(f) = <<>> /\ ~Invalid(f)
    /\ switchForm.status = "INVALID"

C6_Witness == FirstLoad /\ Invalid("name") /\ switchForm.status = "INVALID"

\* -------------------------------------------------------------------- C7
\* C7: once the engine has reacted to the selected category, the form is
\* valid exactly when both fields of the selected category are non-empty,
\* whatever the other category's fields hold.
C7_HiddenFieldsNeverBlock ==
  Reacted =>
    (switchForm.status = "VALID" <=>
       \A f \in FieldsOf(Selected) : Value(f) # "")

\* corporate is filled in and the form is valid although name, which was
\* invalid before the switch, is still empty
C7_Witness ==
  /\ Reacted
  /\ Selected = "corporate"
  /\ changes >= 1
  /\ Value("name") = ""
  /\ Value("companyName") # ""
  /\ Value("companyNameKana") # ""
  /\ switchForm.status = "VALID"

\* -------------------------------------------------------------------- C8
\* C8: after teardown nothing is published to the category signal, the
\* engine never runs again (a run pending at teardown included), and every
\* rule list stays as it was.
C8_NoWorkAfterTeardown ==
  [][phase = "destroyed" =>
       /\ currentCustomerType' = currentCustomerType
       /\ publishes' = publishes
       /\ engineRuns' = engineRuns
       /\ \A f \in Range(allForms) :
            switchForm'.controls[f].validators = RuleList(f)]_vars

\* a change to corporate was pending at teardown, and a category event
\* after teardown set customerType back to individual
C8_Witness ==
  /\ phase = "destroyed"
  /\ currentCustomerType = "corporate"
  /\ displayForms = Arr(<<"name", "nameKana">>)
  /\ InstalledFor("individual")
  /\ Selected = "individual"

\* -------------------------------------------------------------------- C9
\* C9: a null or unrecognized published category falls back to individual:
\* the computation returns the individual fields and the engine installs the
\* individual rules without raising an error.
C9_UnrecognizedFallsBack ==
  /\ engineErrors = 0
  /\ (Reacted /\ currentCustomerType \notin CustomerType) =>
       /\ displayForms = Arr(<<"name", "nameKana">>)
       /\ InstalledFor("individual")

\* ------------------------------------------------------------------- C10
\* C10: in every reachable state the rule list of customerType is empty and
\* customerType is not invalid.
C10_CustomerTypeNeverValidated ==
  RuleList("customerType") = <<>> /\ ~Invalid("customerType")

\* the engine has reacted to a category change and text was typed
C10_Witness ==
  /\ Reacted
  /\ engineRuns >= 2
  /\ Selected = "corporate"
  /\ Value("companyName") # ""

\* ------------------------------------------------------------------- C11
\* C11: _switchValidators is idempotent: from any form state, a second call
\* in a row with the same field list leaves every rule list, every validity
\* state and the form validity as the first call left them.
C11_ApplyIdempotent ==
  [][(engineRuns >= 1 /\ engineRuns' = engineRuns + 1
        /\ displayForms' = displayForms)
       => switchForm' = switchForm]_vars

\* the corporate field list was applied twice in a row
C11_Witness ==
  /\ engineRuns = 2
  /\ changes = 0
  /\ displayForms = Arr(<<"companyName", "companyNameKana">>)
  /\ InstalledFor("corporate")

\* ------------------------------------------------------------------- C12
\* C12: from the end of ngOnInit until teardown every category event has
\* been published exactly once, and the published category is the value the
\* customerType field holds.
C12_EveryEventPublishedOnce ==
  phase = "initialized" =>
    /\ publishes = categoryEvents
    /\ currentCustomerType = Selected

\* several events, one of them repeating the category already selected
C12_Witness ==
  /\ phase = "initialized"
  /\ categoryEvents >= 3
  /\ changes < categoryEvents
  /\ publishes = categoryEvents
  /\ currentCustomerType = "corporate"

\* ------------------------------------------------------------------- C13
\* C13: a category event changes no text field's value, and a run of the
\* engine changes no field's value at all.
C13_SwitchKeepsValues ==
  [][/\ categoryEvents' # categoryEvents =>
          \A f \in TextForms : switchForm'.controls[f].value = Value(f)
     /\ engineRuns' # engineRuns =>
          \A f \in Range(allForms) : switchForm'.controls[f].value = Value(f)
    ]_vars

\* a name typed under individual is still held after the engine switched to
\* corporate and the name field is hidden
C13_Witness ==
  /\ Reacted
  /\ Selected = "corporate"
  /\ engineRuns >= 2
  /\ RuleList("name") = <<>>
  /\ Value("name") # ""

\* ------------------------------------------------------------------- C14
\* C14: while the component is not torn down, rule lists that are not those
\* of the category held by customerType are eventually replaced by them
\* (or the component is torn down).
C14_EventuallyConsistent ==
  (phase = "initialized" /\ ~InstalledFor(Selected))
    ~> (InstalledFor(Selected) \/ phase = "destroyed")

\* three category changes happened before the engine reacted once
C14_Witness ==
  /\ Reacted
  /\ changes = 3
  /\ engineRuns = 2
  /\ InstalledFor("corporate")
  /\ Selected = "corporate"

\* ------------------------------------------------------------------- C15
\* the fields whose rule list is not empty
RuledForms == {f \in Range(allForms) : RuleList(f) # <<>>}

\* C15: after the engine's first run the fields with a non-empty rule list
\* are exactly the fields of one category.
C15_RulesOfOneCategory ==
  engineRuns >= 1 =>
    \/ RuledForms = {"name", "nameKana"}
    \/ RuledForms = {"companyName", "companyNameKana"}

\* a change to corporate the engine has not reacted to yet
C15_Witness ==
  /\ phase = "initialized"
  /\ engineRuns >= 2
  /\ effectDirty
  /\ Selected = "individual"
  /\ RuledForms = {"companyName", "companyNameKana"}

\* ------------------------------------------------------------------- C16
\* C16: a run of the engine emits no category event, publishes nothing and
\* leaves no run pending; a category event that repeats the selected
\* category schedules no run.
C16_NoFeedbackLoop ==
  [][/\ engineRuns' # engineRuns =>
          /\ categoryEvents' = categoryEvents
          /\ publishes' = publishes
          /\ currentCustomerType' = currentCustomerType
          /\ Selected' = Selected
          /\ ~effectDirty'
     /\ (categoryEvents' # categoryEvents /\ Selected' = Selected) =>
          /\ effectDirty' = effectDirty
          /\ engineRuns' = engineRuns
    ]_vars

\* the selected category was published again and the engine stayed at its
\* initial run
C16_Witness ==
  /\ Reacted
  /\ categoryEvents >= 1
  /\ publishes >= 1
  /\ changes = 0
  /\ engineRuns = 1

\* ------------------------------------------------------------------- C17
\* C17: a text edit changes one text control only (its value and validity)
\* and the form validity: it publishes nothing, schedules and runs no
\* engine, and leaves every rule list and every other control unchanged.
C17_TextEditFrame ==
  [][(events' # events /\ categoryEvents' = categoryEvents) =>
       /\ currentCustomerType' = currentCustomerType
       /\ publishes' = publishes
       /\ effectDirty' = effectDirty
       /\ engineRuns' = engineRuns
       /\ \A f \in Range(allForms) :
            switchForm'.controls[f].validators = RuleList(f)
       /\ \E f \in TextForms :
            \A g \in Range(allForms) \ {f} :
              switchForm'.controls[g] = switchForm.controls[g]
    ]_vars

\* only text was typed since first load
C17_Witness ==
  /\ phase = "initialized"
  /\ events >= 2
  /\ categoryEvents = 0
  /\ publishes = 0
  /\ engineRuns = 1
  /\ Value("name") # ""
  /\ ~Invalid("name")
  /\ Invalid("nameKana")
====
